---- MODULE Spec2Model ----
(***************************************************************************)
(* Model of datasets.py: the download / cache / extract pipeline           *)
(* (_chunk_read_, _fetch_file, _uncompress_file, _fetch_dataset) acting on *)
(* one dataset directory.                                                  *)
(*                                                                         *)
(* A file name is the sequence of its dot-separated components             *)
(* (<<"b","tar","gz">> is b.tar.gz); a path inside the dataset directory   *)
(* is represented by its file name.  A file's content is the sequence of   *)
(* chunks written to it.                                                   *)
(***************************************************************************)
EXTENDS Integers, Sequences, FiniteSets, TLC

\* ------------------------------------------------------------------ bounds
\* number of chunks of a remote body
BodyLen == 1
\* longest URL list handed to _fetch_dataset
MaxUrls == 2
\* number of top-level calls made one after the other on the same directory
MaxCalls == 2

\* most rows of a label matrix
MaxRows == 3
\* number of columns (classes) of a label matrix
NumCols == 2
\* largest n_indices asked of unique_indices
MaxN == 2

\* ------------------------------------------------------------ environment
ArchiveNames ==
    { <<"a", "zip">>, <<"b", "tar", "gz">>, <<"c", "gz">>, <<"d", "txt">>,
      <<"e", "tar">> }

UrlBase == "http://noble.gs.washington.edu/yeast"

Urls == { [base |-> UrlBase, file |-> n] : n \in ArchiveNames }

\* the body the server holds for an archive, and a body damaged in transit
GoodBody == [k \in 1..BodyLen |-> "z"]
JunkBody == [k \in 1..BodyLen |-> "junk"]

\* what the extraction of a sound archive yields
Plain == << "plain" >>

\* Python's None, as a value of the same kind as a path
None == << "None" >>

NoExc == "none"

\* What the network does for one request: urlopen either raises
\* (openErr) or yields a response with a Content-Length header, a body, and
\* possibly an error raised by response.read after readErrAt chunks.
Responses ==
    { [openErr |-> e, header |-> "int", body |-> GoodBody,
       readErr |-> NoExc, readErrAt |-> 0] : e \in {"HTTPError", "URLError"} }
    \cup
    { [openErr |-> NoExc, header |-> "absent", body |-> GoodBody,
       readErr |-> NoExc, readErrAt |-> 0] }
    \cup
    { [openErr |-> NoExc, header |-> h, body |-> b, readErr |-> NoExc, readErrAt |-> 0] :
        h \in {"int", "unparsable"}, b \in {GoodBody, JunkBody} }
    \cup
    { [openErr |-> NoExc, header |-> h, body |-> b, readErr |-> e, readErrAt |-> k] :
        h \in {"int", "unparsable"}, b \in {GoodBody, JunkBody},
        e \in {"HTTPError", "URLError"}, k \in 0..BodyLen }

\* --------------------------------------------------------------- the disk
NoFiles == [n \in {} |-> <<>>]

Exists(files, n) == n \in DOMAIN files

WriteFile(files, n, content) ==
    [x \in (DOMAIN files) \cup {n} |-> IF x = n THEN content ELSE files[x]]

RemoveFile(files, n) == [x \in (DOMAIN files) \ {n} |-> files[x]]

\* ------------------------------------------------------------ path helpers
\* os.path.basename(url)
BaseName(url) == url.file

\* os.path.splitext(p)[0]: the path without its last extension
Splitext(p) == IF Len(p) > 1 THEN SubSeq(p, 1, Len(p) - 1) ELSE p

\* str.endswith('.' + ext)
EndsWith(p, ext) == Len(p) > 1 /\ p[Len(p)] = ext

\* ------------------------------------------------------------ _chunk_read_
\* the while loop: k chunks have been read and written so far
RECURSIVE ReadLoop(_, _, _)
ReadLoop(resp, k, written) ==
    IF resp.readErr # NoExc /\ k = resp.readErrAt
    THEN [exc |-> resp.readErr, written |-> written]
    ELSE IF k = Len(resp.body)
         THEN [exc |-> NoExc, written |-> written]
         ELSE ReadLoop(resp, k + 1, Append(written, resp.body[k + 1]))

\* getheader('Content-Length') is None when the header is absent and
\* .strip() then raises AttributeError, outside the try that guards int()
ChunkRead(resp) ==
    IF resp.header = "absent"
    THEN [exc |-> "AttributeError", written |-> <<>>]
    ELSE ReadLoop(resp, 0, <<>>)

\* -------------------------------------------------------------- _fetch_file
\* Result: the disk afterwards, the returned value (ret) or the exception
\* that left the call (exc), and the number of network requests made.

\* _fetch_file without the os.path.exists test of line 191
FetchFileAlways(files, url, resp) ==
    LET full_name == BaseName(url)
        r == ChunkRead(resp)
    IN  IF resp.openErr # NoExc
        THEN [files |-> files, ret |-> None, exc |-> "UnboundLocalError", net |-> 1]
        ELSE [files |-> WriteFile(files, full_name, r.written),
              ret |-> IF r.exc = NoExc THEN full_name ELSE None,
              exc |-> IF r.exc = "AttributeError" THEN r.exc ELSE NoExc,
              net |-> 1]

FetchFile(files, url, resp) ==
    LET full_name == BaseName(url)
    IN  IF Exists(files, full_name)
        THEN [files |-> files, ret |-> full_name, exc |-> NoExc, net |-> 0]
        ELSE IF resp.openErr # NoExc
             \* the except clause returns None, but the finally clause then
             \* closes local_file, which was never bound
             THEN [files |-> files, ret |-> None,
                   exc |-> "UnboundLocalError", net |-> 1]
             ELSE LET r == ChunkRead(resp)
                      written == WriteFile(files, full_name, r.written)
                  IN  IF r.exc = "AttributeError"
                      THEN [files |-> written, ret |-> None, exc |-> r.exc, net |-> 1]
                      ELSE IF r.exc # NoExc
                           THEN [files |-> written, ret |-> None,
                                 exc |-> NoExc, net |-> 1]
                           ELSE [files |-> written, ret |-> full_name,
                                 exc |-> NoExc, net |-> 1]

\* --------------------------------------------------------- _uncompress_file
\* the branch the if/elif chain takes for a file name
Branch(file_) ==
    IF EndsWith(file_, "zip") THEN "zip"
    ELSE IF EndsWith(file_, "gz") THEN "gz"
    ELSE IF EndsWith(file_, "txt") THEN "txt"
    ELSE "tar"

\* an archive can be read iff the whole body the server holds was stored
Sound(content) == content = GoodBody

\* the member a tar archive holds
Member(file_) == SubSeq(file_, 1, 1)

\* the body of the try block up to the os.remove: the disk afterwards and
\* the exception raised, if any
Extract(files, file_) ==
    IF Branch(file_) = "zip"
    THEN \* zipfile.Zipfile does not exist (the class is ZipFile)
         [files |-> files, exc |-> "AttributeError"]
    ELSE IF Branch(file_) = "gz"
    THEN IF ~Exists(files, file_)
         THEN [files |-> files, exc |-> "IOError"]
         ELSE LET name == Splitext(file_)
                  opened == WriteFile(files, name, <<>>)
              IN  IF Sound(files[file_])
                  THEN [files |-> WriteFile(opened, name, Plain), exc |-> NoExc]
                  ELSE [files |-> opened, exc |-> "IOError"]
    ELSE IF Branch(file_) = "txt"
    THEN [files |-> files, exc |-> NoExc]
    ELSE IF ~Exists(files, file_)
         THEN [files |-> files, exc |-> "IOError"]
         ELSE IF Sound(files[file_])
              THEN [files |-> WriteFile(files, Member(file_), Plain), exc |-> NoExc]
              ELSE [files |-> files, exc |-> "ReadError"]

\* _uncompress_file with the os.remove outside the try block
UncompressFileEager(files, file_, delete_archive) ==
    IF file_ = None
    THEN [files |-> files, exc |-> "AttributeError"]
    ELSE LET x == Extract(files, file_)
         IN  IF delete_archive /\ ~EndsWith(file_, "txt")
             THEN [files |-> RemoveFile(x.files, file_), exc |-> x.exc]
             ELSE x

UncompressFile(files, file_, delete_archive) ==
    IF file_ = None
    THEN \* os.path.dirname(None), before the try block
         [files |-> files, exc |-> "AttributeError"]
    ELSE LET x == Extract(files, file_)
         IN  IF x.exc # NoExc
             THEN x
             ELSE IF delete_archive /\ ~EndsWith(file_, "txt")
                  THEN [files |-> RemoveFile(x.files, file_), exc |-> NoExc]
                  ELSE x

\* ------------------------------------------------------------------ state
VARIABLES
    dirExists,   \* the dataset directory exists
    files,       \* its files: name -> content
    pc,          \* position of the running _fetch_dataset call, or "idle"
    urls,        \* _fetch_dataset: the urls argument
    uncompress,  \* _fetch_dataset: the uncompress argument
    i,           \* _fetch_dataset: index of the url the loop is at
    full_name,   \* _fetch_dataset: value returned by the first _fetch_file
    filesOut,    \* _fetch_dataset: the list being returned
    exc,         \* the exception that left the last top-level call
    extractions, \* outcome of each _uncompress_file call made for url i
    refetches,   \* number of _fetch_file calls made at line 256 for url i
    noneAt,      \* index of the url whose _fetch_file returned None, or 0
    last,        \* the most recent _fetch_file / _uncompress_file call
    calls        \* direct calls of the helpers made so far

\* fetch_data, _get_dataset
VARIABLES
    fd,          \* position of the running fetch_data call, or how the last ended
    conv,        \* fetch_data: index of the file the conversion loop is at
    requests,    \* network requests made since the running call started
    prevDone,    \* the fetch_data call before the running one returned normally
    failedAt,    \* the position at which the last fetch_data call raised
    lookup       \* the most recent _get_dataset call

\* unique_indices and the recomputation of fetch_Yeast_data
VARIABLES
    y,           \* the label matrix: a sequence of rows of flags
    column1,     \* unique_indices: 0-based column of the first class
    column2,     \* unique_indices: 0-based column of the second class
    n_indices,   \* unique_indices: number of rows wanted per class
    indices,     \* unique_indices: the returned indices (0-based rows)
    sel,         \* which of the two has run on these inputs, or "input"
    new_data     \* fetch_Yeast_data: the subset computed or loaded

\* fetch_Yeast_data
VARIABLES
    ypc,         \* position of the running fetch_Yeast_data call
    class1,      \* fetch_Yeast_data: first class (1-based)
    class2,      \* fetch_Yeast_data: second class (1-based)
    loaded,      \* the running call took new_data from its cache file
    cached       \* the files of the data directory when the call started

dataVars == << fd, conv, requests, prevDone, failedAt, lookup >>
selVars == << y, column1, column2, n_indices, indices, sel, new_data >>
yeastVars == << ypc, class1, class2, loaded, cached >>

vars == << dirExists, files, pc, urls, uncompress, i, full_name, filesOut,
           exc, extractions, refetches, noneAt, last, calls,
           dataVars, selVars, yeastVars >>

\* where the network error of a response strikes a _fetch_file call, if the
\* call gets that far
ErrorStruck(before, url, resp) ==
    IF Exists(before, BaseName(url)) THEN "none"
    ELSE IF resp.openErr # NoExc THEN "open"
    ELSE IF resp.header # "absent" /\ resp.readErr # NoExc THEN "read"
    ELSE "none"

\* the Content-Length header a _fetch_file call met, if it got a response
HeaderMet(before, url, resp) ==
    IF Exists(before, BaseName(url)) \/ resp.openErr # NoExc
    THEN "n/a"
    ELSE resp.header

ContentOf(f, n) == IF Exists(f, n) THEN f[n] ELSE <<>>

\* the record kept of one call: its arguments, what the disk held for the
\* file before and after it, and how it ended
FetchEvent(before, url, resp, r) ==
    [op |-> "_fetch_file", name |-> BaseName(url),
     existed |-> Exists(before, BaseName(url)),
     pre |-> ContentOf(before, BaseName(url)),
     errAt |-> ErrorStruck(before, url, resp),
     header |-> HeaderMet(before, url, resp),
     body |-> IF HeaderMet(before, url, resp) = "n/a" THEN <<>> ELSE resp.body,
     del |-> FALSE, branch |-> "n/a",
     ret |-> r.ret, exc |-> r.exc, net |-> r.net,
     present |-> Exists(r.files, BaseName(url)),
     post |-> ContentOf(r.files, BaseName(url)),
     out |-> <<>>]

UncompressEvent(before, file_, delete_archive, r) ==
    [op |-> "_uncompress_file", name |-> file_,
     existed |-> Exists(before, file_),
     pre |-> ContentOf(before, file_),
     errAt |-> "none", header |-> "n/a", body |-> <<>>,
     del |-> delete_archive,
     branch |-> IF file_ = None THEN "n/a" ELSE Branch(file_),
     ret |-> None, exc |-> r.exc, net |-> 0,
     present |-> Exists(r.files, file_),
     post |-> ContentOf(r.files, file_),
     out |-> IF file_ = None THEN <<>> ELSE ContentOf(r.files, Splitext(file_))]

NoEvent ==
    [op |-> "none", name |-> None, existed |-> FALSE, pre |-> <<>>,
     errAt |-> "none", header |-> "n/a", body |-> <<>>, del |-> FALSE,
     branch |-> "n/a", ret |-> None, exc |-> NoExc, net |-> 0,
     present |-> FALSE, post |-> <<>>, out |-> <<>>]

RECURSIVE SeqsUpTo(_, _)
SeqsUpTo(S, n) ==
    IF n = 0 THEN { <<>> }
    ELSE LET shorter == SeqsUpTo(S, n - 1)
         IN  shorter \cup { Append(s, x) : s \in shorter, x \in S }

UrlLists == SeqsUpTo(Urls, MaxUrls) \ { <<>> }

NoCall ==
    /\ pc = "idle"
    /\ urls = <<>>
    /\ uncompress = TRUE
    /\ i = 0
    /\ full_name = None
    /\ filesOut = <<>>
    /\ exc = NoExc
    /\ extractions = <<>>
    /\ refetches = 0
    /\ noneAt = 0
    /\ last = NoEvent
    /\ calls = 0

NoLookup == [names |-> <<>>, ret |-> <<>>, exc |-> NoExc, missing |-> None,
             before |-> NoFiles, after |-> NoFiles]

NoSubset == [indices |-> <<>>, y |-> <<>>]

NoData ==
    /\ fd = "idle"
    /\ conv = 0
    /\ requests = 0
    /\ prevDone = FALSE
    /\ failedAt = "none"
    /\ lookup = NoLookup

NoSelection ==
    /\ y = <<>>
    /\ column1 = 0
    /\ column2 = 0
    /\ n_indices = 0
    /\ indices = <<>>
    /\ sel = "input"
    /\ new_data = NoSubset

NoYeast ==
    /\ ypc = "idle"
    /\ class1 = 0
    /\ class2 = 0
    /\ loaded = FALSE
    /\ cached = NoFiles

\* the data directory before anything was fetched
Init ==
    /\ dirExists = FALSE
    /\ files = NoFiles
    /\ NoCall
    /\ NoData
    /\ NoSelection
    /\ NoYeast

callVars == << urls, uncompress, i, full_name, filesOut, extractions,
               refetches, noneAt >>

\* ------------------------------------------ direct calls of the two helpers
\* _fetch_file(url, data_dir)
FetchFileCall(url, resp) ==
    /\ pc = "idle"
    /\ calls < MaxCalls
    /\ LET r == FetchFile(files, url, resp)
       IN  /\ dirExists' = TRUE
           /\ files' = r.files
           /\ exc' = r.exc
           /\ last' = FetchEvent(files, url, resp, r)
    /\ calls' = calls + 1
    /\ UNCHANGED << pc, callVars >>

\* _uncompress_file(file_, delete_archive)
UncompressFileCall(file_, delete_archive) ==
    /\ pc = "idle"
    /\ calls < MaxCalls
    /\ LET r == UncompressFile(files, file_, delete_archive)
       IN  /\ files' = r.files
           /\ exc' = r.exc
           /\ last' = UncompressEvent(files, file_, delete_archive, r)
    /\ calls' = calls + 1
    /\ UNCHANGED << dirExists, pc, callVars >>

Next ==
    \/ \E url \in Urls, resp \in Responses :
           FetchFileCall(url, resp) /\ UNCHANGED << dataVars, selVars, yeastVars >>
    \/ \E n \in ArchiveNames, d \in BOOLEAN :
           UncompressFileCall(n, d) /\ UNCHANGED << dataVars, selVars, yeastVars >>

Spec == Init /\ [][Next]_vars

\* ------------------------------------------------------------ _fetch_dataset
\* lines 239-243: the directory is created, the result list is empty
DatasetStart(us, unc) ==
    /\ pc = "idle"
    /\ dirExists' = TRUE
    /\ urls' = us
    /\ uncompress' = unc
    /\ i' = 1
    /\ pc' = "fetch"
    /\ UNCHANGED << files, full_name, filesOut, exc, extractions, refetches,
                    noneAt, last, calls >>

\* line 248 left out
RmtreeSkipped(d, f) == [dirExists |-> d, files |-> f]

\* shutil.rmtree(data_dir)
Rmtree(d, f) == [dirExists |-> FALSE, files |-> NoFiles]

\* line 258 with files.insert(0, ...) in place of files.append(...)
AppendPrepend(out, name) == << Splitext(name) >> \o out

\* line 258
AppendResult(out, name) == Append(out, Splitext(name))

\* after line 258: the loop header or the return statement
AfterAppend == IF i = Len(urls) THEN "return" ELSE "fetch"

\* lines 245-248, and line 258 when uncompress is false
DatasetFetch(resp) ==
    /\ pc = "fetch"
    /\ LET r == FetchFile(files, urls[i], resp)
           cleaned == IF r.ret = None /\ r.exc = NoExc
                      THEN Rmtree(TRUE, r.files)
                      ELSE [dirExists |-> TRUE, files |-> r.files]
       IN  /\ last' = FetchEvent(files, urls[i], resp, r)
           /\ dirExists' = cleaned.dirExists
           /\ files' = cleaned.files
           /\ extractions' = <<>>
           /\ refetches' = 0
           /\ IF r.exc # NoExc
              THEN /\ pc' = "raised"
                   /\ exc' = r.exc
                   /\ UNCHANGED << full_name, filesOut, i, noneAt >>
              ELSE /\ full_name' = r.ret
                   /\ noneAt' = IF r.ret = None THEN i ELSE noneAt
                   /\ IF uncompress
                      THEN /\ pc' = "uncompress"
                           /\ UNCHANGED << exc, filesOut, i >>
                      ELSE IF r.ret = None
                           THEN \* os.path.splitext(None)
                                /\ pc' = "raised"
                                /\ exc' = "AttributeError"
                                /\ UNCHANGED << filesOut, i >>
                           ELSE /\ filesOut' = AppendResult(filesOut, r.ret)
                                /\ i' = i + 1
                                /\ pc' = AfterAppend
                                /\ UNCHANGED exc
    /\ UNCHANGED << urls, uncompress, calls >>

\* line 251, then line 258 if the extraction succeeded
DatasetUncompress ==
    /\ pc = "uncompress"
    /\ LET r == UncompressFile(files, full_name, TRUE)
       IN  /\ last' = UncompressEvent(files, full_name, TRUE, r)
           /\ extractions' = Append(extractions, r.exc)
           /\ files' = r.files
           /\ IF r.exc # NoExc
              THEN /\ pc' = "retry_fetch"
                   /\ UNCHANGED << filesOut, i >>
              ELSE /\ filesOut' = AppendResult(filesOut, full_name)
                   /\ i' = i + 1
                   /\ pc' = AfterAppend
    /\ UNCHANGED << dirExists, urls, uncompress, full_name, exc, refetches,
                    noneAt, calls >>

\* line 256: the value _fetch_file returns is dropped
DatasetRetryFetch(resp) ==
    /\ pc = "retry_fetch"
    /\ LET r == FetchFile(files, urls[i], resp)
       IN  /\ last' = FetchEvent(files, urls[i], resp, r)
           /\ refetches' = refetches + 1
           /\ dirExists' = TRUE
           /\ files' = r.files
           /\ IF r.exc # NoExc
              THEN pc' = "raised" /\ exc' = r.exc
              ELSE pc' = "retry_uncompress" /\ UNCHANGED exc
    /\ UNCHANGED << urls, uncompress, i, full_name, filesOut, extractions,
                    noneAt, calls >>

\* line 257, then line 258 if the second extraction succeeded
DatasetRetryUncompress ==
    /\ pc = "retry_uncompress"
    /\ LET r == UncompressFile(files, full_name, TRUE)
       IN  /\ last' = UncompressEvent(files, full_name, TRUE, r)
           /\ extractions' = Append(extractions, r.exc)
           /\ files' = r.files
           /\ IF r.exc # NoExc
              THEN /\ pc' = "raised"
                   /\ exc' = r.exc
                   /\ UNCHANGED << filesOut, i >>
              ELSE /\ filesOut' = AppendResult(filesOut, full_name)
                   /\ i' = i + 1
                   /\ pc' = AfterAppend
                   /\ UNCHANGED exc
    /\ UNCHANGED << dirExists, urls, uncompress, full_name, refetches,
                    noneAt, calls >>

\* line 260
DatasetReturn ==
    /\ pc = "return"
    /\ pc' = "done"
    /\ UNCHANGED << dirExists, files, callVars, exc, last, calls >>

\* the data directory as an earlier _fetch_file call may have left it
InitDataset ==
    /\ \/ dirExists = FALSE /\ files = NoFiles
       \/ \E url \in Urls, resp \in Responses :
              dirExists = TRUE /\ files = FetchFile(NoFiles, url, resp).files
    /\ NoCall
    /\ NoData
    /\ NoSelection
    /\ NoYeast

NextDataset ==
    \/ \E us \in UrlLists, unc \in BOOLEAN :
           DatasetStart(us, unc) /\ UNCHANGED << dataVars, selVars, yeastVars >>
    \/ \E resp \in Responses :
           DatasetFetch(resp) /\ UNCHANGED << dataVars, selVars, yeastVars >>
    \/ DatasetUncompress /\ UNCHANGED << dataVars, selVars, yeastVars >>
    \/ \E resp \in Responses :
           DatasetRetryFetch(resp) /\ UNCHANGED << dataVars, selVars, yeastVars >>
    \/ DatasetRetryUncompress /\ UNCHANGED << dataVars, selVars, yeastVars >>
    \/ DatasetReturn /\ UNCHANGED << dataVars, selVars, yeastVars >>

SpecDataset == InitDataset /\ [][NextDataset]_vars

\* ----------------------------------------------------------------- claims
IsFetch == last.op = "_fetch_file"
IsUncompress == last.op = "_uncompress_file"

\* C1: a _fetch_file call that finds the file named after the URL's
\* basename already in data_dir returns that path, makes no network request
\* and leaves the file's content as it was.
C1_CacheHit ==
    (IsFetch /\ last.existed) =>
        /\ last.ret = last.name
        /\ last.exc = NoExc
        /\ last.net = 0
        /\ last.present
        /\ last.post = last.pre

C1_Witness == IsFetch /\ last.existed /\ last.ret = last.name /\ last.net = 0

\* C2: whenever an HTTP or transport error strikes a _fetch_file call, while
\* the connection is opened or while chunks are read, the call returns None
\* and raises nothing.
C2_ErrorReturnsNone ==
    (IsFetch /\ last.errAt # "none") =>
        (last.ret = None /\ last.exc = NoExc)

\* C3: when the response has no Content-Length header, or one that is no
\* integer, and no error strikes, the whole body is written to the local file
\* and _fetch_file returns the local path.
C3_UnknownSizeProceeds ==
    (IsFetch /\ last.header \in {"absent", "unparsable"} /\ last.errAt = "none") =>
        /\ last.exc = NoExc
        /\ last.ret = last.name
        /\ last.present
        /\ last.post = last.body

\* the branch the specification assigns to a file name
DocumentedBranch(n) ==
    IF n[Len(n)] = "zip" THEN "zip"
    ELSE IF n[Len(n)] = "txt" THEN "txt"
    ELSE IF n[Len(n)] = "gz" /\ Len(n) = 2 THEN "gz"
    ELSE "tar"

\* C9: _uncompress_file takes the zip branch for .zip, the gzip branch for a
\* single-stream .gz, none for .txt and the tar branch for every other
\* archive (.tar, .tar.gz); for a sound a.zip, b.tar.gz or c.gz the call
\* succeeds and leaves decompressed content behind.
C9_Dispatch ==
    (IsUncompress /\ last.name # None) =>
        /\ last.branch = DocumentedBranch(last.name)
        /\ (last.existed /\ Sound(last.pre)
              /\ last.name \in { <<"a", "zip">>, <<"b", "tar", "gz">>, <<"c", "gz">> })
           => (last.exc = NoExc /\ last.out = Plain)

\* C10: after an _uncompress_file call on a file that was present, the file
\* is gone if and only if the extraction succeeded, delete_archive is true
\* and the name does not end in .txt.
C10_DeleteIffSuccess ==
    (IsUncompress /\ last.existed) =>
        (~last.present <=>
            (last.exc = NoExc /\ last.del /\ last.name[Len(last.name)] # "txt"))

C10_Witness ==
    IsUncompress /\ last.existed /\ last.exc = NoExc /\ last.del /\ ~last.present

\* a _fetch_file call of the running _fetch_dataset call failed
DownloadFailed == noneAt > 0 \/ (IsFetch /\ last.exc # NoExc)

Terminal == pc \in {"done", "raised"}

\* C4 as claimed: when _fetch_file returned None for a url that is not the
\* last one, the loop goes on to the urls after it.
C4_LoopContinues ==
    (Terminal /\ noneAt > 0 /\ noneAt < Len(urls)) => i > noneAt

\* C4: once _fetch_file has returned None for a url, the dataset directory
\* is deleted, the loop never reaches a later url and the call never returns
\* normally: it ends raising at that url.
C4_DeletesAndAborts ==
    (noneAt > 0) =>
        /\ i = noneAt
        /\ pc \in {"uncompress", "retry_fetch", "retry_uncompress", "raised"}
        /\ (pc \in {"uncompress", "retry_fetch"} \/ ~uncompress)
              => (~dirExists /\ files = NoFiles)

C4_Witness == pc = "raised" /\ noneAt > 0 /\ noneAt < Len(urls)

\* every url of the call has left a file behind
Populated ==
    \A k \in 1..Len(urls) :
        \/ Exists(files, BaseName(urls[k]))
        \/ Exists(files, Splitext(BaseName(urls[k])))
        \/ Exists(files, Member(BaseName(urls[k])))

\* C5: when the call is aborted because a download failed the dataset
\* directory is absent at the end, and in every terminal state the directory
\* is absent or holds the files of every url.
C5_CleanedOnFailure ==
    /\ (pc = "raised" /\ DownloadFailed) => ~dirExists
    /\ Terminal => (~dirExists \/ Populated)

FirstExtractionFailed == Len(extractions) >= 1 /\ extractions[1] # NoExc

\* C6: at most two extractions are attempted per url; once the first has
\* failed and the url is dealt with, exactly one more _fetch_file call and
\* one more _uncompress_file call were made; a failed second extraction ends
\* the call raising.
C6_OneRetryCycle ==
    /\ Len(extractions) <= 2
    /\ (FirstExtractionFailed /\ pc \in {"fetch", "return", "done", "raised"})
          => (refetches = 1 /\ Len(extractions) = 2)
    /\ (Len(extractions) = 2 /\ extractions[2] # NoExc) => pc = "raised"

\* C7: when the first extraction of a url's archive has failed, the
\* _fetch_file call made before the second extraction requests the url from
\* the network again and writes the archive anew.
C7_RetryDownloadsAgain ==
    (pc = "retry_uncompress" /\ full_name # None) =>
        (last.net = 1 /\ ~last.existed)

\* C8: when _fetch_dataset returns, the list has one entry per url, in the
\* order of the urls, entry k being the local path of url k without its last
\* extension.
C8_ResultList ==
    (pc = "done") =>
        /\ Len(filesOut) = Len(urls)
        /\ \A k \in 1..Len(urls) :
              LET n == urls[k].file
              IN  /\ Len(filesOut[k]) = Len(n) - 1
                  /\ \A j \in 1..(Len(n) - 1) : filesOut[k][j] = n[j]

C8_Witness ==
    /\ pc = "done"
    /\ uncompress
    /\ Len(urls) = MaxUrls
    /\ urls[1] # urls[MaxUrls]
    /\ \E k \in 1..Len(urls) : urls[k].file = <<"b", "tar", "gz">>

\* C18: a _fetch_file call answered from the cache (the file existed, no
\* network request) returns a file holding the whole remote body, never an
\* empty or truncated one, whatever the earlier calls for that url met.
C18_CachedFileComplete ==
    (IsFetch /\ last.existed /\ last.net = 0 /\ last.ret = last.name) =>
        Len(last.post) = Len(GoodBody)

\* ------------------------------------------------------------- _get_dataset
\* lines 289-293: names[k..] are still to be looked at
RECURSIVE GetDatasetLoop(_, _, _, _)
GetDatasetLoop(f, file_names, k, file_paths) ==
    IF k > Len(file_names)
    THEN [files |-> f, ret |-> file_paths, exc |-> NoExc, missing |-> None]
    ELSE IF ~Exists(f, file_names[k])
         THEN [files |-> f, ret |-> <<>>, exc |-> "IOError",
               missing |-> file_names[k]]
         ELSE GetDatasetLoop(f, file_names, k + 1,
                             Append(file_paths, file_names[k]))

\* the loop without the raise of line 292: missing files are skipped
RECURSIVE GetDatasetLenientLoop(_, _, _, _)
GetDatasetLenientLoop(f, file_names, k, file_paths) ==
    IF k > Len(file_names)
    THEN [files |-> f, ret |-> file_paths, exc |-> NoExc, missing |-> None]
    ELSE GetDatasetLenientLoop(f, file_names, k + 1,
             IF Exists(f, file_names[k])
             THEN Append(file_paths, file_names[k]) ELSE file_paths)

GetDatasetLenient(f, file_names) == GetDatasetLenientLoop(f, file_names, 1, <<>>)

\* _get_dataset(dataset_name, file_names)
GetDataset(f, file_names) == GetDatasetLoop(f, file_names, 1, <<>>)

LookupEvent(before, file_names, r) ==
    [names |-> file_names, ret |-> r.ret, exc |-> r.exc, missing |-> r.missing,
     before |-> before, after |-> r.files]

\* --------------------------------------------------------------- fetch_data
\* lines 328-335
data_names ==
    << "kernel_matrix_tap_n_3588", "kernel_matrix_mpi_n_3588",
       "kernel_matrix_mgi_n_3588", "kernel_matrix_exp_gauss_n_3588",
       "kernel_matrix_pfamdom_exp_cn_3588", "kernel_matrix_sw_cn_3588" >>

\* line 336
dataset_files == [k \in 1..Len(data_names) |-> << data_names[k], "npy" >>]

\* lines 342-345
KernelUrls ==
    [k \in 1..Len(data_names) |->
        [base |-> UrlBase, file |-> << data_names[k], "txt", "gz" >>]]

\* lines 371-373
LabelsNpy == << "labels_3588_13", "npy" >>
LabelsUrls == << [base |-> UrlBase, file |-> << "labels_3588_13", "txt" >>] >>

\* what np.save writes
Npy == << "npy" >>

\* lines 360 and 364: the array is saved, the text file removed
KernelSaved(f, k, full) == RemoveFile(WriteFile(f, dataset_files[k], Npy), full)

\* line 340 handed file_names (the archives) in place of dataset_files
KernelLookupArchives == [k \in 1..Len(data_names) |-> BaseName(KernelUrls[k])]

\* line 340: the files the first lookup asks for
KernelLookupNames == dataset_files

\* lines 239-243 of the _fetch_dataset call made by fetch_data
EnterDataset(us) ==
    /\ dirExists' = TRUE
    /\ urls' = us
    /\ uncompress' = TRUE
    /\ i' = 1
    /\ pc' = "fetch"
    /\ full_name' = None
    /\ filesOut' = <<>>
    /\ extractions' = <<>>
    /\ refetches' = 0
    /\ noneAt' = 0

\* lines 336-347: the cache is looked up; on IOError _fetch_dataset is entered
FetchDataStart ==
    /\ fd \in {"idle", "done", "raised"}
    /\ ypc = "idle"
    /\ calls < MaxCalls
    /\ calls' = calls + 1
    /\ prevDone' = (fd = "done")
    /\ requests' = 0
    /\ failedAt' = "none"
    /\ conv' = 0
    /\ exc' = NoExc
    /\ last' = NoEvent
    /\ LET r == GetDataset(files, KernelLookupNames)
       IN  /\ lookup' = LookupEvent(files, KernelLookupNames, r)
           /\ files' = r.files
           /\ IF r.exc = NoExc
              THEN /\ fd' = "labels_lookup"
                   /\ UNCHANGED << dirExists, pc, callVars >>
              ELSE /\ fd' = "kernels"
                   /\ EnterDataset(KernelUrls)
    /\ UNCHANGED << selVars, yeastVars >>

\* the steps of the _fetch_dataset call that fetch_data is waiting for
InDataset == fd \in {"kernels", "labels"}

DataFetch(resp) ==
    /\ InDataset
    /\ DatasetFetch(resp)
    /\ requests' = requests + FetchFile(files, urls[i], resp).net
    /\ UNCHANGED << fd, conv, prevDone, failedAt, lookup, selVars, yeastVars >>

DataRetryFetch(resp) ==
    /\ InDataset
    /\ DatasetRetryFetch(resp)
    /\ requests' = requests + FetchFile(files, urls[i], resp).net
    /\ UNCHANGED << fd, conv, prevDone, failedAt, lookup, selVars, yeastVars >>

DataUncompress ==
    InDataset /\ DatasetUncompress /\ UNCHANGED << dataVars, selVars, yeastVars >>

DataRetryUncompress ==
    InDataset /\ DatasetRetryUncompress /\ UNCHANGED << dataVars, selVars, yeastVars >>

DataReturn ==
    InDataset /\ DatasetReturn /\ UNCHANGED << dataVars, selVars, yeastVars >>

\* an exception of _fetch_dataset leaves fetch_data as it is
FetchDataAbort ==
    /\ fd \in {"kernels", "labels"}
    /\ pc = "raised"
    /\ pc' = "idle"
    /\ failedAt' = fd
    /\ fd' = "raised"
    /\ UNCHANGED << dirExists, files, callVars, exc, last, calls, conv,
                    requests, prevDone, lookup, selVars, yeastVars >>

\* line 347 has returned: full_names is the list of the text files
FetchDataKernelsFetched ==
    /\ fd = "kernels"
    /\ pc = "done"
    /\ pc' = "idle"
    /\ fd' = "convert"
    /\ conv' = 1
    /\ UNCHANGED << dirExists, files, callVars, exc, last, calls,
                    requests, prevDone, failedAt, lookup, selVars, yeastVars >>

\* lines 349-368, one pass: the text file is parsed and saved as an array
\* (ok), or something in the try block raises and the directory is removed
ConvertKernel(ok) ==
    /\ fd = "convert"
    /\ IF ok /\ Exists(files, filesOut[conv])
       THEN /\ files' = KernelSaved(files, conv, filesOut[conv])
            /\ IF conv = Len(filesOut)
               THEN fd' = "labels_lookup" /\ conv' = 0
               ELSE fd' = "convert" /\ conv' = conv + 1
            /\ UNCHANGED << dirExists, exc, failedAt >>
       ELSE /\ files' = Rmtree(dirExists, files).files
            /\ dirExists' = Rmtree(dirExists, files).dirExists
            /\ fd' = "raised"
            /\ failedAt' = "convert"
            /\ exc' = "ValueError"
            /\ UNCHANGED conv
    /\ UNCHANGED << pc, callVars, last, calls, requests, prevDone, lookup,
                    selVars, yeastVars >>

\* lines 370-374
LabelsLookup ==
    /\ fd = "labels_lookup"
    /\ LET r == GetDataset(files, << LabelsNpy >>)
       IN  /\ lookup' = LookupEvent(files, << LabelsNpy >>, r)
           /\ files' = r.files
           /\ IF r.exc = NoExc
              THEN /\ fd' = "load"
                   /\ UNCHANGED << dirExists, pc, callVars >>
              ELSE /\ fd' = "labels"
                   /\ EnterDataset(LabelsUrls)
    /\ UNCHANGED << exc, last, calls, conv, requests, prevDone, failedAt,
                    selVars, yeastVars >>

\* line 374 has returned
FetchDataLabelsFetched ==
    /\ fd = "labels"
    /\ pc = "done"
    /\ pc' = "idle"
    /\ fd' = "convert_labels"
    /\ UNCHANGED << dirExists, files, callVars, exc, last, calls, conv,
                    requests, prevDone, failedAt, lookup, selVars, yeastVars >>

\* lines 375-379: no try block surrounds the conversion of the labels
ConvertLabels(ok) ==
    /\ fd = "convert_labels"
    /\ LET txt == Append(filesOut[1], "txt")
       IN  IF ok /\ Exists(files, txt)
           THEN /\ files' = RemoveFile(WriteFile(files, LabelsNpy, Npy), txt)
                /\ fd' = "load"
                /\ UNCHANGED << exc, failedAt >>
           ELSE /\ fd' = "raised"
                /\ failedAt' = "convert_labels"
                /\ exc' = "ValueError"
                /\ UNCHANGED files
    /\ UNCHANGED << dirExists, pc, callVars, last, calls, conv, requests,
                    prevDone, lookup, selVars, yeastVars >>

\* lines 383-396: the arrays are loaded and returned
FetchDataReturn ==
    /\ fd = "load"
    /\ IF /\ \A k \in 1..Len(dataset_files) : Exists(files, dataset_files[k])
          /\ Exists(files, LabelsNpy)
       THEN fd' = "done" /\ UNCHANGED << exc, failedAt >>
       ELSE fd' = "raised" /\ failedAt' = "load" /\ exc' = "IOError"
    /\ UNCHANGED << dirExists, files, pc, callVars, last, calls, conv,
                    requests, prevDone, lookup, selVars, yeastVars >>

NextData ==
    \/ FetchDataStart
    \/ \E resp \in Responses : DataFetch(resp)
    \/ DataUncompress
    \/ \E resp \in Responses : DataRetryFetch(resp)
    \/ DataRetryUncompress
    \/ DataReturn
    \/ FetchDataAbort
    \/ FetchDataKernelsFetched
    \/ \E ok \in BOOLEAN : ConvertKernel(ok)
    \/ LabelsLookup
    \/ FetchDataLabelsFetched
    \/ \E ok \in BOOLEAN : ConvertLabels(ok)
    \/ FetchDataReturn

SpecData == Init /\ [][NextData]_vars

\* ----------------------------------------------- direct calls of _get_dataset
\* the array files fetch_data keeps in the data directory
ArrayNames == { dataset_files[k] : k \in 1..Len(data_names) } \cup { LabelsNpy }

\* the lists of file names looked up
LookupLists ==
    (SeqsUpTo(ArrayNames, MaxUrls) \ { <<>> }) \cup { dataset_files, << LabelsNpy >> }

\* a data directory holding any of the array files (files may be removed by
\* hand between two runs)
InitLookup ==
    /\ \E S \in SUBSET ArrayNames :
          /\ files = [n \in S |-> Npy]
          /\ dirExists = (S # {})
    /\ NoCall
    /\ NoData
    /\ NoSelection
    /\ NoYeast

\* _get_dataset(dataset_name, file_names)
GetDatasetCall(file_names) ==
    /\ fd = "idle"
    /\ calls = 0
    /\ calls' = calls + 1
    /\ LET r == GetDataset(files, file_names)
       IN  /\ lookup' = LookupEvent(files, file_names, r)
           /\ files' = r.files
           /\ exc' = r.exc
    /\ UNCHANGED << dirExists, pc, callVars, last, fd, conv, requests,
                    prevDone, failedAt, selVars, yeastVars >>

NextLookup == \E file_names \in LookupLists : GetDatasetCall(file_names)

SpecLookup == InitLookup /\ [][NextLookup]_vars

\* the positions of lookup.names whose file was not on disk
Missing == { k \in 1..Len(lookup.names) : ~Exists(lookup.before, lookup.names[k]) }

\* C12: _get_dataset returns the paths of file_names in order when all exist;
\* otherwise it raises IOError naming the first missing file of the list and
\* returns no path; either way the disk is as before and nothing is
\* downloaded.
C12_Lookup ==
    (lookup.names # <<>>) =>
        /\ lookup.after = lookup.before
        /\ files = lookup.before
        /\ requests = 0
        /\ Missing = {} => (lookup.exc = NoExc /\ lookup.ret = lookup.names)
        /\ Missing # {} =>
              /\ lookup.exc = "IOError"
              /\ lookup.ret = <<>>
              /\ \E k \in Missing :
                    /\ \A j \in Missing : k <= j
                    /\ lookup.missing = lookup.names[k]

C12_Witness ==
    /\ lookup.exc = "IOError"
    /\ Cardinality(Missing) > 1
    /\ Exists(lookup.before, lookup.names[1])

\* C11: a fetch_data call that follows one that returned normally makes no
\* network request: both lookups succeed and _fetch_dataset is not entered.
C11_SecondCallOffline ==
    prevDone =>
        /\ requests = 0
        /\ pc = "idle"
        /\ fd \in {"labels_lookup", "load", "done"}
        /\ lookup.exc = NoExc
        /\ last = NoEvent

C11_Witness == prevDone /\ fd = "done"

\* C13: when the conversion of a downloaded text file raises, for a kernel
\* matrix or for the label matrix, the dataset directory is gone when the
\* exception leaves fetch_data.
C13_ConversionCleans ==
    (fd = "raised" /\ failedAt \in {"convert", "convert_labels"}) =>
        (~dirExists /\ files = NoFiles)

\* ----------------------------------------------------------- unique_indices
\* a label matrix: rows of NumCols flags, 1 (member) or -1 (not a member)
Rows == [1..NumCols -> {1, -1}]
Matrices == SeqsUpTo(Rows, MaxRows)
Columns == 0..(NumCols - 1)

\* the boolean mask that only tests y[:, column] == 1
MaskMember(m, column) == [r \in 1..Len(m) |-> m[r][column + 1] = 1]

\* lines 425-426: (y[:, column] == 1) & not (np.delete(y, [column], 1) == 1).any(axis=1)
Mask(m, column) ==
    [r \in 1..Len(m) |->
        /\ m[r][column + 1] = 1
        /\ ~(\E d \in Columns \ {column} : m[r][d + 1] = 1)]

\* lines 428-429: np.arange(n_samples)[mask == True], rows k.. still to do
RECURSIVE Arange(_, _, _)
Arange(mask, k, acc) ==
    IF k > Len(mask) THEN acc
    ELSE Arange(mask, k + 1, IF mask[k] THEN Append(acc, k - 1) ELSE acc)

\* a slice that keeps one element more
TakeOneMore(s, n) == IF n + 1 < Len(s) THEN SubSeq(s, 1, n + 1) ELSE s

\* s[:n] for n >= 0
Take(s, n) == IF n < Len(s) THEN SubSeq(s, 1, n) ELSE s

\* line 429 selecting with mask1 a second time
UniqueIndicesTwice(m, c1, c2, n) ==
    LET mask1 == Arange(Mask(m, c1), 1, <<>>)
    IN  Take(mask1, n) \o Take(mask1, n)

\* lines 422-431
UniqueIndices(m, c1, c2, n) ==
    LET mask1 == Arange(Mask(m, c1), 1, <<>>)
        mask2 == Arange(Mask(m, c2), 1, <<>>)
    IN  Take(mask1, n) \o Take(mask2, n)

\* line 456: the n_indices fetch_Yeast_data asks for
YeastIndices == 100

\* line 439: "Yeast_data__%i_%i.npy" % (class1, class2)
Digits == << "0", "1", "2", "3", "4", "5", "6", "7", "8", "9" >>

RECURSIVE FormatInt(_)
FormatInt(n) ==
    IF n < 0 THEN << "-" >> \o FormatInt(0 - n)
    ELSE IF n < 10 THEN << Digits[n + 1] >>
    ELSE FormatInt(n \div 10) \o << Digits[(n % 10) + 1] >>

\* a name that keeps the two classes in ascending order
CacheNameUnordered(c1, c2) ==
    << "Yeast_data__" >>
        \o FormatInt(IF c1 < c2 THEN c1 ELSE c2) \o << "_" >>
        \o FormatInt(IF c1 < c2 THEN c2 ELSE c1) \o << "npy" >>

CacheName(c1, c2) ==
    << "Yeast_data__" >> \o FormatInt(c1) \o << "_" >> \o FormatInt(c2) \o << "npy" >>

\* line 464 reading the column of the second class
YeastSubsetOther(m, k1, k2) ==
    LET ix == UniqueIndices(m, k1 - 1, k2 - 1, YeastIndices)
    IN  [indices |-> ix,
         y |-> [k \in 1..Len(ix) |-> m[ix[k] + 1][(k2 - 1) + 1]]]

\* lines 436-437 and 454-472: the subset of the classes k1, k2 (1-based);
\* the kernels are cut with the same indices and are not modelled
YeastSubset(m, k1, k2) ==
    LET ix == UniqueIndices(m, k1 - 1, k2 - 1, YeastIndices)
    IN  [indices |-> ix,
         y |-> [k \in 1..Len(ix) |-> m[ix[k] + 1][(k1 - 1) + 1]]]

InitSelect ==
    /\ dirExists = FALSE
    /\ files = NoFiles
    /\ NoCall
    /\ NoData
    /\ NoYeast
    /\ y \in Matrices
    /\ column1 = 0
    /\ column2 = 0
    /\ n_indices = 0
    /\ indices = <<>>
    /\ sel = "input"
    /\ new_data = NoSubset

otherVars == << dirExists, files, pc, callVars, exc, last, calls, dataVars >>

\* unique_indices(y, column1, column2, n_indices)
UniqueIndicesCall(c1, c2, n) ==
    /\ sel = "input"
    /\ sel' = "unique_indices"
    /\ column1' = c1
    /\ column2' = c2
    /\ n_indices' = n
    /\ indices' = UniqueIndices(y, c1, c2, n)
    /\ UNCHANGED << y, new_data, otherVars, yeastVars >>

\* the except block of fetch_Yeast_data on the label matrix y
SubsetCall(k1, k2) ==
    /\ sel = "input"
    /\ sel' = "subset"
    /\ class1' = k1
    /\ class2' = k2
    /\ new_data' = YeastSubset(y, k1, k2)
    /\ UNCHANGED << y, column1, column2, n_indices, indices, otherVars, ypc,
                    loaded, cached >>

NextSelect ==
    \/ \E c1 \in Columns, c2 \in Columns, n \in 0..MaxN : UniqueIndicesCall(c1, c2, n)
    \/ \E k1 \in 1..NumCols, k2 \in 1..NumCols : SubsetCall(k1, k2)

SpecSelect == InitSelect /\ [][NextSelect]_vars

\* the rows whose only flag equal to 1 is in column c
Exclusive(c) ==
    { r \in 0..(Len(y) - 1) :
        /\ y[r + 1][c + 1] = 1
        /\ \A d \in Columns : d # c => y[r + 1][d + 1] # 1 }

\* b lists, in ascending order, the n smallest elements of E (all of E if it
\* has fewer)
IsBlock(b, E, n) ==
    /\ Len(b) = IF Cardinality(E) < n THEN Cardinality(E) ELSE n
    /\ \A k \in 1..Len(b) : b[k] \in E
    /\ \A j, k \in 1..Len(b) : j < k => b[j] < b[k]
    /\ \A e \in E : (\A k \in 1..Len(b) : b[k] # e) => (\A k \in 1..Len(b) : b[k] < e)

Selected == sel = "unique_indices"

\* C14: the result of unique_indices is the ascending list of the rows
\* exclusive to column1, cut to its first n_indices elements, followed by the
\* same for column2; a class with fewer exclusive rows gives all of them.
C14_ExactResult ==
    Selected =>
        LET n1 == IF Cardinality(Exclusive(column1)) < n_indices
                  THEN Cardinality(Exclusive(column1)) ELSE n_indices
        IN  /\ Len(indices) >= n1
            /\ IsBlock(SubSeq(indices, 1, n1), Exclusive(column1), n_indices)
            /\ IsBlock(SubSeq(indices, n1 + 1, Len(indices)),
                       Exclusive(column2), n_indices)

C14_Witness ==
    /\ Selected
    /\ column1 # column2
    /\ n_indices > 0
    /\ Cardinality(Exclusive(column1)) > n_indices
    /\ Cardinality(Exclusive(column2)) > 0
    /\ Len(indices) = n_indices + Cardinality(Exclusive(column2))
    /\ indices[Len(indices)] < indices[1]

NoRepeat == \A j, k \in 1..Len(indices) : j # k => indices[j] # indices[k]

\* C15 as claimed: for every pair of columns the result holds no index twice.
C15_NoDuplicates == Selected => NoRepeat

\* C15: for two different columns the result holds no index twice.
C15_NoDuplicatesDistinct == (Selected /\ column1 # column2) => NoRepeat

C15_Witness ==
    /\ Selected
    /\ column1 # column2
    /\ NoRepeat
    /\ \E j, k \in 1..Len(indices) :
          /\ j < k
          /\ y[indices[j] + 1][column1 + 1] = 1
          /\ y[indices[k] + 1][column2 + 1] = 1

\* C16: every returned row has flag 1 in exactly one column of the matrix,
\* and that column is column1 or column2.
C16_ExactlyOneFlag ==
    Selected =>
        \A k \in 1..Len(indices) :
            LET ones == { d \in Columns : y[indices[k] + 1][d + 1] = 1 }
            IN  Cardinality(ones) = 1 /\ ones \subseteq {column1, column2}

C16_Witness ==
    /\ Selected
    /\ Len(indices) > 1
    /\ \E r \in 1..Len(y) : Cardinality({ d \in Columns : y[r][d + 1] = 1 }) > 1

\* C19: in the recomputed subset of two different classes, y has one entry
\* per selected index: 1 for the rows of the class1 block, which come first,
\* and -1 for the rows of the class2 block.
C19_SubsetLabels ==
    (sel = "subset" /\ class1 # class2) =>
        LET e1 == Cardinality(Exclusive(class1 - 1))
            e2 == Cardinality(Exclusive(class2 - 1))
            n1 == IF e1 < YeastIndices THEN e1 ELSE YeastIndices
            n2 == IF e2 < YeastIndices THEN e2 ELSE YeastIndices
        IN  /\ Len(new_data.indices) = n1 + n2
            /\ Len(new_data.y) = Len(new_data.indices)
            /\ \A k \in 1..Len(new_data.y) :
                  /\ k <= n1 => (new_data.y[k] = 1
                                 /\ new_data.indices[k] \in Exclusive(class1 - 1))
                  /\ k > n1 => (new_data.y[k] = -1
                                /\ new_data.indices[k] \in Exclusive(class2 - 1))

C19_Witness ==
    /\ sel = "subset"
    /\ class1 # class2
    /\ Len(new_data.y) > 1
    /\ new_data.y[1] = 1
    /\ new_data.y[Len(new_data.y)] = -1

\* --------------------------------------------------------- fetch_Yeast_data
\* the label matrix the remote labels file holds (data.y, line 394): row r
\* belongs to one class only
RemoteLabels ==
    [r \in 1..MaxRows |->
        [c \in 1..NumCols |-> IF c = ((r - 1) % NumCols) + 1 THEN 1 ELSE -1]]

Classes == 1..NumCols

RECURSIVE SaveRows(_, _)
SaveRows(sub, k) ==
    IF k > Len(sub.indices) THEN <<>>
    ELSE FormatInt(sub.indices[k]) \o << IF sub.y[k] = 1 THEN "+" ELSE "-" >>
             \o SaveRows(sub, k + 1)

\* line 473: what np.save writes for a subset
Save(sub) == << "bunch" >> \o SaveRows(sub, 1)

\* a cache file np.load cannot read
Corrupt == << "corrupt" >>

\* line 441: np.load(...).tolist() succeeds on this content
Loadable(c) == Len(c) > 0 /\ c[1] = "bunch" /\ Len(c) % 2 = 1

Load(c) ==
    [indices |-> [k \in 1..((Len(c) - 1) \div 2) |->
                     CHOOSE d \in 0..9 : Digits[d + 1] = c[2 * k]],
     y |-> [k \in 1..((Len(c) - 1) \div 2) |->
                     IF c[2 * k + 1] = "+" THEN 1 ELSE -1]]

\* the data directory is empty, or holds one cache file left by an earlier
\* run: a saved subset or a file that cannot be loaded
InitYeast ==
    /\ NoCall
    /\ NoData
    /\ NoSelection
    /\ NoYeast
    /\ \/ dirExists = FALSE /\ files = NoFiles
       \/ \E a \in Classes, b \in Classes :
            /\ dirExists = TRUE
            /\ \/ files = WriteFile(NoFiles, CacheName(a - 1, b - 1),
                                    Save(YeastSubset(RemoteLabels, a, b)))
               \/ files = WriteFile(NoFiles, CacheName(a - 1, b - 1), Corrupt)

\* lines 434-442: the cache file of the pair is loaded, or the except block
\* is entered
YeastStart(k1, k2) ==
    /\ ypc \in {"idle", "done", "raised"}
    /\ fd \in {"idle", "done", "raised"}
    /\ calls < MaxCalls
    /\ calls' = calls + 1
    /\ class1' = k1
    /\ class2' = k2
    /\ cached' = files
    /\ fd' = "idle"
    /\ conv' = 0
    /\ requests' = 0
    /\ prevDone' = FALSE
    /\ failedAt' = "none"
    /\ lookup' = NoLookup
    /\ last' = NoEvent
    /\ exc' = NoExc
    /\ pc' = "idle"
    /\ urls' = <<>>
    /\ uncompress' = TRUE
    /\ i' = 0
    /\ full_name' = None
    /\ filesOut' = <<>>
    /\ extractions' = <<>>
    /\ refetches' = 0
    /\ noneAt' = 0
    /\ LET name == CacheName(k1 - 1, k2 - 1)
       IN  IF Exists(files, name) /\ Loadable(files[name])
           THEN /\ new_data' = Load(files[name])
                /\ loaded' = TRUE
                /\ ypc' = "done"
           ELSE /\ new_data' = NoSubset
                /\ loaded' = FALSE
                /\ ypc' = "recompute"
    /\ UNCHANGED << dirExists, files, y, column1, column2, n_indices, indices, sel >>

\* line 444: data = fetch_data(), entered as FetchDataStart enters it
YeastFetchData ==
    /\ ypc = "recompute"
    /\ ypc' = "fetch_data"
    /\ LET r == GetDataset(files, KernelLookupNames)
       IN  /\ lookup' = LookupEvent(files, KernelLookupNames, r)
           /\ files' = r.files
           /\ IF r.exc = NoExc
              THEN /\ fd' = "labels_lookup"
                   /\ UNCHANGED << dirExists, pc, callVars >>
              ELSE /\ fd' = "kernels"
                   /\ EnterDataset(KernelUrls)
    /\ UNCHANGED << exc, last, calls, conv, requests, prevDone, failedAt,
                    selVars, class1, class2, loaded, cached >>

\* an exception of fetch_data leaves fetch_Yeast_data as it is
YeastAbort ==
    /\ ypc = "fetch_data"
    /\ fd = "raised"
    /\ ypc' = "raised"
    /\ UNCHANGED << dirExists, files, pc, callVars, exc, last, calls, dataVars,
                    selVars, class1, class2, loaded, cached >>

\* lines 445-475: the subset is computed from data.y and saved (ok), or
\* np.save raises
YeastSave(ok) ==
    /\ ypc = "fetch_data"
    /\ fd = "done"
    /\ y' = RemoteLabels
    /\ new_data' = YeastSubset(RemoteLabels, class1, class2)
    /\ IF ok
       THEN /\ files' = WriteFile(files, CacheName(class1 - 1, class2 - 1),
                                  Save(YeastSubset(RemoteLabels, class1, class2)))
            /\ ypc' = "done"
            /\ UNCHANGED exc
       ELSE /\ ypc' = "raised"
            /\ exc' = "IOError"
            /\ UNCHANGED files
    /\ UNCHANGED << dirExists, pc, callVars, last, calls, dataVars, column1,
                    column2, n_indices, indices, sel, class1, class2, loaded,
                    cached >>

\* what the network does during fetch_Yeast_data: the server answers with
\* a whole body, sound or damaged, or urlopen fails
YeastResponses ==
    { r \in Responses :
        /\ r.openErr \in {NoExc, "URLError"}
        /\ r.header = "int"
        /\ r.openErr # NoExc => r.body = GoodBody
        /\ r.readErr = NoExc }

NextYeast ==
    \/ \E k1 \in Classes, k2 \in Classes : YeastStart(k1, k2)
    \/ YeastFetchData
    \/ \E resp \in YeastResponses : DataFetch(resp)
    \/ DataUncompress
    \/ \E resp \in YeastResponses : DataRetryFetch(resp)
    \/ DataRetryUncompress
    \/ DataReturn
    \/ FetchDataAbort
    \/ FetchDataKernelsFetched
    \/ \E ok \in BOOLEAN : ConvertKernel(ok)
    \/ LabelsLookup
    \/ FetchDataLabelsFetched
    \/ \E ok \in BOOLEAN : ConvertLabels(ok)
    \/ FetchDataReturn
    \/ YeastAbort
    \/ \E ok \in BOOLEAN : YeastSave(ok)

SpecYeast == InitYeast /\ [][NextYeast]_vars

\* the cache file of the requested pair was present and loadable when the
\* call started
CacheHit ==
    /\ Exists(cached, CacheName(class1 - 1, class2 - 1))
    /\ Loadable(cached[CacheName(class1 - 1, class2 - 1)])

\* C17: the subset is memoized per ordered pair of classes. A call that finds
\* the cache file of its own pair present and loadable returns the content of
\* that file with no fetch_data call, no network request and no change of the
\* directory; any other call, also one that finds the file of the swapped
\* pair, is not answered from a file and returns the subset of its own pair.
\* The names of the two orders of a pair differ.
C17_Memoized ==
    /\ \A a \in Classes, b \in Classes :
          a # b => CacheName(a - 1, b - 1) # CacheName(b - 1, a - 1)
    /\ ypc # "idle" =>
          /\ CacheHit =>
                /\ ypc = "done"
                /\ loaded
                /\ new_data = Load(cached[CacheName(class1 - 1, class2 - 1)])
                /\ fd = "idle"
                /\ requests = 0
                /\ files = cached
          /\ ~CacheHit =>
                /\ ~loaded
                /\ ypc = "done" =>
                      /\ fd = "done"
                      /\ new_data = YeastSubset(RemoteLabels, class1, class2)
          /\ ypc = "done" => new_data = YeastSubset(RemoteLabels, class1, class2)

C17_Witness ==
    /\ ypc = "done"
    /\ loaded
    /\ class1 # class2
    /\ Exists(cached, CacheName(class2 - 1, class1 - 1))
    /\ Load(cached[CacheName(class2 - 1, class1 - 1)]) # new_data
====
